---- MODULE Spec2Model ----
(***************************************************************************)
(* Model of summarize.py (QuickCaptureProcessor).                          *)
(*                                                                         *)
(* Texts are sequences of tokens.  Every token stands for one fixed piece  *)
(* of text, and no token's text can be assembled from, or overlaps, the    *)
(* texts of the others, so matching on tokens is matching on characters:   *)
(*   "H"   ######            "sp"  one space        "nl"  line feed        *)
(*   "["  "]"  "("  ")"      the four bracket characters                   *)
(*   "U"   https://          "x"   the letter x     "D"   ---              *)
(*   "OT"  <think>   "CT"  </think>   "OB"  [think]   "CB"  [/think]       *)
(*   "TK"  thinking:                                                       *)
(*   "IG"  instagram.com   "IGU" Instagram.COM   "YT"  youtube.com         *)
(*   "a"   the letter a    "/"  "?"   the URL delimiters                   *)
(*   "EI"  Error processing Instagram content:                             *)
(*   "EW"  Error summarizing webpage:                                      *)
(*   "TNF" Transcription output not found at transcription_output/out.txt  *)
(*   "OLL" Error getting summary from Ollama: 500                          *)
(*   "FET" the message of a failed requests.get                            *)
(***************************************************************************)
EXTENDS Integers, Sequences, FiniteSets

VARIABLES
    pc,                 \* position in process_quick_capture / the pure-function drivers
    file,               \* the text stored in the note file (self.file_path)
    prov,               \* the positions of file that rewrites wrote: .ok for summaries, .err for error strings
    file0,              \* the note as it was when the run started
    content,            \* local `content` of process_quick_capture
    section_info,       \* local `section_info` (NoSection for None)
    processed_content,  \* local `processed_content`
    outcome,            \* how the last backend call ended
    backend,            \* the backend process_section dispatched to
    driver,             \* self.driver
    created,            \* sessions created (webdriver.Chrome constructed)
    quits,              \* sessions released (driver.quit() called)
    caught,             \* the except clause of process_quick_capture ran
    iters,              \* rewrites persisted by this run
    calls               \* backend calls made by this run

vars == <<pc, file, prov, file0, content, section_info, processed_content, outcome,
          backend, driver, created, quits, caught, iters, calls>>

----------------------------------------------------------------------------
(* Bounds *)

MaxPieces == 4
MaxUrlLen == 3
MaxRawLen == 3

----------------------------------------------------------------------------
(* Character classes and str helpers *)

WS == {"sp", "nl"}

Min(S) == CHOOSE m \in S : \A n \in S : m <= n
Max(S) == CHOOSE m \in S : \A n \in S : m >= n

RECURSIVE LStrip(_)
LStrip(s) == IF s # <<>> /\ Head(s) \in WS THEN LStrip(Tail(s)) ELSE s

RECURSIVE RStrip(_)
RStrip(s) == IF s # <<>> /\ s[Len(s)] \in WS THEN RStrip(SubSeq(s, 1, Len(s) - 1)) ELSE s

Strip(s) == RStrip(LStrip(s))

CountNl(s) == Cardinality({i \in 1..Len(s) : s[i] = "nl"})

Contains(s, t) == \E i \in 1..Len(s) : s[i] = t

RECURSIVE WsRun(_, _)
WsRun(s, i) == IF i <= Len(s) /\ s[i] \in WS THEN 1 + WsRun(s, i + 1) ELSE 0

RECURSIVE Flatten(_)
Flatten(ss) == IF ss = <<>> THEN <<>> ELSE Head(ss) \o Flatten(Tail(ss))

----------------------------------------------------------------------------
(* extract_unprocessed_section *)

NoSection == [index |-> -1]

\* (?=######|\Z) after position e
LookaheadOk(s, e) == e = Len(s) \/ s[e + 1] = "H"

\* End of the match of (######\s+.*?\n)(?=######|\Z) that starts at p, 0 if none.
\* \s+ is greedy and .*? lazy: with the whole whitespace run taken, the first
\* line feed after it that is followed by ###### or the end; failing that, the
\* engine gives whitespace back, and only the run's own last character can
\* then close the match.
MatchEnd(s, p) ==
    IF ~(p + 1 <= Len(s) /\ s[p] = "H" /\ s[p + 1] \in WS) THEN 0
    ELSE LET r == WsRun(s, p + 1)
             late == {e \in (p + r + 1)..Len(s) : s[e] = "nl" /\ LookaheadOk(s, e)}
             early == {e \in (p + 2)..(p + r) : s[e] = "nl" /\ LookaheadOk(s, e)}
         IN IF late # {} THEN Min(late)
            ELSE IF early # {} THEN Max(early)
            ELSE 0

\* re.split(pattern with one group, content): the text before the first match,
\* the match, and the split of what follows it.
RECURSIVE Split(_)
Split(s) ==
    LET starts == {p \in 1..Len(s) : MatchEnd(s, p) > 0}
    IN IF starts = {} THEN <<s>>
       ELSE LET p == Min(starts)
                e == MatchEnd(s, p)
            IN <<SubSeq(s, 1, p - 1), SubSeq(s, p, e)>> \o Split(SubSeq(s, e + 1, Len(s)))

IsUrlChar(t) == t \notin WS /\ t # ")"

RECURSIVE UrlRun(_, _)
UrlRun(s, i) == IF i <= Len(s) /\ IsUrlChar(s[i]) THEN 1 + UrlRun(s, i + 1) ELSE 0

\* The positions j of "]" that close a match of \[(.*?)\]\((https?://[^\s\)]+)\)
\* opened by the "[" at i.
LinkCloses(s, i) ==
    {j \in (i + 1)..Len(s) :
        /\ s[j] = "]"
        /\ j + 3 <= Len(s)
        /\ s[j + 1] = "("
        /\ s[j + 2] = "U"
        /\ UrlRun(s, j + 3) >= 1
        /\ j + 3 + UrlRun(s, j + 3) <= Len(s)
        /\ s[j + 3 + UrlRun(s, j + 3)] = ")"
        /\ \A k \in (i + 1)..(j - 1) : s[k] # "nl"}

NoLink == [found |-> FALSE]

\* re.search(r'\[(.*?)\]\((https?://[^\s\)]+)\)', s)
LinkSearch(s) ==
    LET opens == {i \in 1..Len(s) : s[i] = "[" /\ LinkCloses(s, i) # {}}
    IN IF opens = {} THEN NoLink
       ELSE LET i == Min(opens)
                j == Min(LinkCloses(s, i))
            IN [found |-> TRUE,
                title |-> SubSeq(s, i + 1, j - 1),
                url |-> SubSeq(s, j + 2, j + 2 + UrlRun(s, j + 3))]

\* LooksUnprocessed without its line count
LooksUnprocessedNoCount(body) == Contains(body, "U")

\* body.strip().count('\n') <= 2 and any(url in body for url in ['http://', 'https://'])
LooksUnprocessed(body) == CountNl(Strip(body)) <= 2 /\ Contains(body, "U")

\* for i in range(0, len(sections)-1, 2), with i counted from 1 here
RECURSIVE ExtractFrom(_, _)
ExtractFrom(sections, i) ==
    IF i + 1 > Len(sections) THEN NoSection
    ELSE LET header == sections[i]
             body == sections[i + 1]
             m == LinkSearch(Strip(body))
         IN IF LooksUnprocessed(body) /\ m.found
            THEN [index |-> i - 1, header |-> header, title |-> m.title,
                  url |-> m.url, full_section |-> header \o body]
            ELSE ExtractFrom(sections, i + 2)

extract_unprocessed_section(text) == ExtractFrom(Split(text), 1)

----------------------------------------------------------------------------
(* update_file_with_processed_section *)

\* NewSection with the summary on the link's line and no rule after it
NewSectionFlat(info, summary) ==
    info.header \o <<"[">> \o info.title \o <<"]", "(">> \o info.url
        \o <<")", "sp">> \o summary \o <<"nl">>

\* header + f"[{title}]({url})\n\n" + processed_content + "\n\n---\n"
NewSection(info, summary) ==
    info.header \o <<"[">> \o info.title \o <<"]", "(">> \o info.url
        \o <<")", "nl", "nl">> \o summary \o <<"nl", "nl", "D", "nl">>

\* str.replace(old, new) with old non-empty: every occurrence, left to right,
\* occurrences not overlapping.
RECURSIVE Replace(_, _, _)
Replace(s, old, new) ==
    IF Len(s) < Len(old) THEN s
    ELSE IF SubSeq(s, 1, Len(old)) = old
         THEN new \o Replace(SubSeq(s, Len(old) + 1, Len(s)), old, new)
         ELSE <<Head(s)>> \o Replace(Tail(s), old, new)

UpdatedContent(text, info, summary) ==
    Replace(text, info.full_section, NewSection(info, summary))

\* The provenance of UpdatedContent's tokens: those of a replaced occurrence
\* carry `tag`, the others keep what they had.
RECURSIVE ReplaceProv(_, _, _, _, _)
ReplaceProv(s, p, old, n, tag) ==
    IF Len(s) < Len(old) THEN p
    ELSE IF SubSeq(s, 1, Len(old)) = old
         THEN [k \in 1..n |-> tag]
                  \o ReplaceProv(SubSeq(s, Len(old) + 1, Len(s)),
                                 SubSeq(p, Len(old) + 1, Len(p)), old, n, tag)
         ELSE <<Head(p)>> \o ReplaceProv(Tail(s), Tail(p), old, n, tag)

NoProv == [ok |-> {}, err |-> {}]

\* prov as one tag per token of a text of n tokens, and back
ProvTags(p, n) ==
    [i \in 1..n |-> IF i \in p.err THEN "err" ELSE IF i \in p.ok THEN "ok" ELSE "orig"]

ProvOf(tags) ==
    [ok |-> {i \in 1..Len(tags) : tags[i] = "ok"}, err |-> {i \in 1..Len(tags) : tags[i] = "err"}]

----------------------------------------------------------------------------
(* clean_response *)

\* re.sub(open + '.*?' + close, '', s, flags=re.DOTALL): from the leftmost
\* opening marker to the first closing marker after it, then on from there.
RECURSIVE RemovePaired(_, _, _)
RemovePaired(s, open, close) ==
    LET opens == {i \in 1..Len(s) : s[i] = open}
    IN IF opens = {} THEN s
       ELSE LET i == Min(opens)
                closes == {j \in (i + 1)..Len(s) : s[j] = close}
            IN IF closes = {} THEN s
               ELSE SubSeq(s, 1, i - 1)
                        \o RemovePaired(SubSeq(s, Min(closes) + 1, Len(s)), open, close)

\* re.sub(r'^thinking:.*$', '', s, flags=re.MULTILINE); atStart says whether
\* s begins a line.
RECURSIVE RemoveThinkingLines(_, _)
RemoveThinkingLines(s, atStart) ==
    IF s = <<>> THEN <<>>
    ELSE IF atStart /\ Head(s) = "TK"
         THEN LET nls == {i \in 1..Len(s) : s[i] = "nl"}
              IN IF nls = {} THEN <<>>
                 ELSE RemoveThinkingLines(SubSeq(s, Min(nls), Len(s)), FALSE)
         ELSE <<Head(s)>> \o RemoveThinkingLines(Tail(s), Head(s) = "nl")

\* re.sub(r'\n\s*\n', '\n\n', s): a line feed, then whitespace up to the last
\* line feed of the whitespace run that follows.
RECURSIVE CollapseBlank(_)
CollapseBlank(s) ==
    IF s = <<>> THEN <<>>
    ELSE IF Head(s) # "nl" THEN <<Head(s)>> \o CollapseBlank(Tail(s))
    ELSE LET r == WsRun(s, 2)
             ends == {e \in 2..(1 + r) : s[e] = "nl"}
         IN IF ends = {} THEN <<"nl">> \o CollapseBlank(Tail(s))
            ELSE <<"nl", "nl">> \o CollapseBlank(SubSeq(s, Max(ends) + 1, Len(s)))

clean_response(text) ==
    Strip(CollapseBlank(RemoveThinkingLines(
        RemovePaired(RemovePaired(text, "OT", "CT"), "OB", "CB"), TRUE)))

----------------------------------------------------------------------------
(* is_social_media_url, process_section *)

\* str.lower() on a token
Lower(t) == IF t = "IGU" THEN "IG" ELSE t

LowerSeq(s) == [i \in 1..Len(s) |-> Lower(s[i])]

\* urlparse(url).netloc: what follows the scheme's "//" up to the first of
\* "/", "?" and "#"; empty when the text has no scheme.
Netloc(url) ==
    IF url = <<>> \/ Head(url) # "U" THEN <<>>
    ELSE LET rest == Tail(url)
             stops == {i \in 1..Len(rest) : rest[i] \in {"/", "?", "H"}}
         IN IF stops = {} THEN rest ELSE SubSeq(rest, 1, Min(stops) - 1)

\* urlparse raises ValueError("Invalid IPv6 URL") on a bracket without its pair.
UrlparseRaises(url) == Contains(Netloc(url), "[") # Contains(Netloc(url), "]")

\* is_social_media_url looking at the whole URL instead of its host
is_social_media_url_whole(url) ==
    Contains(LowerSeq(url), "IG") \/ Contains(LowerSeq(url), "YT")

is_social_media_url(url) ==
    LET domain == LowerSeq(Netloc(url))
    IN Contains(domain, "IG") \/ Contains(domain, "YT")

\* The function process_section ends in: "raise" when urlparse raises.
Dispatch(url) ==
    IF UrlparseRaises(url) THEN "raise"
    ELSE IF is_social_media_url(url)
         THEN IF Contains(LowerSeq(url), "IG") THEN "process_instagram"
              ELSE IF Contains(LowerSeq(url), "YT") THEN "process_youtube"
              ELSE "summarize_webpage"
         ELSE "summarize_webpage"

----------------------------------------------------------------------------
(* Inputs: the notes a run may start from, the texts the model may answer *)

PcHead == <<"H", "sp", "x", "nl">>
PcLink == <<"[", "x", "]", "(", "U", "x", ")", "nl">>
PcInsta == <<"[", "x", "]", "(", "U", "IG", ")", "nl">>
PcBad == <<"[", "x", "]", "(", "U", "[", ")", "nl">>
PcBare == <<"U", "x", "nl">>
PcText == <<"x", "nl">>
PcDone == <<"[", "x", "]", "(", "U", "x", ")", "nl", "nl", "x", "nl", "nl", "D", "nl">>

Pieces == {PcHead, PcLink, PcInsta, PcBad, PcBare, PcText, PcDone}

\* Every text made of at most n of the given parts
RECURSIVE Concats(_, _)
Concats(parts, n) ==
    IF n = 0 THEN {<<>>}
    ELSE LET shorter == Concats(parts, n - 1)
         IN shorter \cup {p \o t : p \in parts, t \in shorter}

Notes == Concats(Pieces, MaxPieces)

UrlAlphabet == {"a", "IG", "IGU", "YT", "/", "?", "[", "H"}

\* The URLs a link can carry: https:// and at least one more character
Urls == {<<"U">> \o t : t \in Concats({<<c>> : c \in UrlAlphabet}, MaxUrlLen) \ {<<>>}}

CleanAlphabet == {"OT", "CT", "OB", "CB", "TK", "nl", "sp", "x"}

\* The texts the inference endpoint may answer with
RawTexts == Concats({<<c>> : c \in CleanAlphabet}, MaxRawLen)

\* response.json()['response'] of a 200 answer
RawOutputs == {<<"x">>, <<"OT", "x", "CT", "nl", "x", "sp", "x">>, <<"H", "sp", "x">>}

ErrTranscriptMissing == <<"EI", "sp", "TNF">>
ErrTranscriptNon200 == <<"EI", "sp", "OLL">>
ErrWebFetch == <<"EW", "sp", "FET">>
ErrWebNon200 == <<"EW", "sp", "OLL">>

----------------------------------------------------------------------------
(* The run: __init__, then process_quick_capture *)

Init ==
    /\ pc = "idle"
    /\ file \in Notes
    /\ prov = NoProv
    /\ file0 = file
    /\ content = <<>>
    /\ section_info = NoSection
    /\ processed_content = <<>>
    /\ outcome = "none"
    /\ backend = "none"
    /\ driver = "none"
    /\ created = 0
    /\ quits = 0
    /\ caught = FALSE
    /\ iters = 0
    /\ calls = 0

\* setup_selenium, which a caller may use before the run
SetupSelenium ==
    /\ pc = "idle"
    /\ driver' = IF driver = "none" THEN "chrome" ELSE driver
    /\ created' = IF driver = "none" THEN created + 1 ELSE created
    /\ UNCHANGED <<pc, file, prov, file0, content, section_info, processed_content,
                   outcome, backend, quits, caught, iters, calls>>

\* process_quick_capture is entered: try, while True
Start ==
    /\ pc = "idle"
    /\ pc' = "loop"
    /\ UNCHANGED <<file, prov, file0, content, section_info, processed_content, outcome,
                   backend, driver, created, quits, caught, iters, calls>>

\* content = read_file_content(); section_info = extract_unprocessed_section(content)
ReadAndExtract ==
    /\ pc = "loop"
    /\ content' = file
    /\ section_info' = extract_unprocessed_section(file)
    /\ pc' = IF section_info' = NoSection THEN "finally" ELSE "process"
    /\ UNCHANGED <<file, prov, file0, processed_content, outcome, backend, driver,
                   created, quits, caught, iters, calls>>

\* read_file_content raises (the file cannot be opened): except, then finally
ReadFails ==
    /\ pc = "loop"
    /\ caught' = TRUE
    /\ pc' = "finally"
    /\ UNCHANGED <<file, prov, file0, content, section_info, processed_content, outcome,
                   backend, driver, created, quits, iters, calls>>

\* process_section: urlparse raises inside is_social_media_url, no backend is called
ClassifyRaises ==
    /\ pc = "process"
    /\ Dispatch(section_info.url) = "raise"
    /\ backend' = "raise"
    /\ caught' = TRUE
    /\ pc' = "finally"
    /\ UNCHANGED <<file, prov, file0, content, section_info, processed_content, outcome,
                   driver, created, quits, iters, calls>>

\* process_instagram, also as process_youtube calls it: the error string when
\* out.txt is missing or the answer is not 200, else the cleaned response
ProcessInstagram ==
    /\ pc = "process"
    /\ Dispatch(section_info.url) \in {"process_instagram", "process_youtube"}
    /\ backend' = Dispatch(section_info.url)
    /\ \/ outcome' = "missing" /\ processed_content' = ErrTranscriptMissing
       \/ outcome' = "non200" /\ processed_content' = ErrTranscriptNon200
       \/ \E raw \in RawOutputs :
              outcome' = "ok" /\ processed_content' = clean_response(raw)
    /\ calls' = calls + 1
    /\ pc' = "update"
    /\ UNCHANGED <<file, prov, file0, content, section_info, driver, created, quits,
                   caught, iters>>

\* summarize_webpage: the error string when the fetch fails or the answer is
\* not 200, else the cleaned response
SummarizeWebpage ==
    /\ pc = "process"
    /\ Dispatch(section_info.url) = "summarize_webpage"
    /\ backend' = "summarize_webpage"
    /\ \/ outcome' = "fetch" /\ processed_content' = ErrWebFetch
       \/ outcome' = "non200" /\ processed_content' = ErrWebNon200
       \/ \E raw \in RawOutputs :
              outcome' = "ok" /\ processed_content' = clean_response(raw)
    /\ calls' = calls + 1
    /\ pc' = "update"
    /\ UNCHANGED <<file, prov, file0, content, section_info, driver, created, quits,
                   caught, iters>>

\* update_file_with_processed_section: read again, replace, write
UpdateFile ==
    /\ pc = "update"
    /\ file' = UpdatedContent(file, section_info, processed_content)
    /\ prov' = ProvOf(ReplaceProv(file, ProvTags(prov, Len(file)), section_info.full_section,
                                  Len(NewSection(section_info, processed_content)),
                                  IF outcome = "ok" THEN "ok" ELSE "err"))
    /\ iters' = iters + 1
    /\ pc' = "sleep"
    /\ UNCHANGED <<file0, content, section_info, processed_content, outcome, backend,
                   driver, created, quits, caught, calls>>

\* update_file_with_processed_section raises: the read, or the open for writing,
\* fails and the file is as it was, or the write fails after open() truncated it
UpdateFails ==
    /\ pc = "update"
    /\ \/ UNCHANGED <<file, prov>>
       \/ file' = <<>> /\ prov' = NoProv
    /\ caught' = TRUE
    /\ pc' = "finally"
    /\ UNCHANGED <<file0, content, section_info, processed_content, outcome, backend,
                   driver, created, quits, iters, calls>>

\* time.sleep(2), then the next iteration
Sleep ==
    /\ pc = "sleep"
    /\ pc' = "loop"
    /\ UNCHANGED <<file, prov, file0, content, section_info, processed_content, outcome,
                   backend, driver, created, quits, caught, iters, calls>>

\* Cleanup as an else clause would run it: skipped once an exception was caught
CleanupUnlessCaught ==
    /\ pc = "finally"
    /\ driver' = IF caught THEN driver ELSE "none"
    /\ quits' = IF driver # "none" /\ ~caught THEN quits + 1 ELSE quits
    /\ pc' = "done"
    /\ UNCHANGED <<file, prov, file0, content, section_info, processed_content, outcome,
                   backend, created, caught, iters, calls>>

\* finally: cleanup_selenium
Cleanup ==
    /\ pc = "finally"
    /\ driver' = "none"
    /\ quits' = IF driver # "none" THEN quits + 1 ELSE quits
    /\ pc' = "done"
    /\ UNCHANGED <<file, prov, file0, content, section_info, processed_content, outcome,
                   backend, created, caught, iters, calls>>

Next ==
    \/ SetupSelenium
    \/ Start
    \/ ReadAndExtract
    \/ ReadFails
    \/ ClassifyRaises
    \/ ProcessInstagram
    \/ SummarizeWebpage
    \/ UpdateFile
    \/ UpdateFails
    \/ Sleep
    \/ Cleanup

Spec == Init /\ [][Next]_vars

----------------------------------------------------------------------------
(* process_section alone, on a note whose one entry links to any URL *)

InitClassify ==
    /\ pc = "process"
    /\ \E u \in Urls : file = PcHead \o <<"[", "x", "]", "(">> \o u \o <<")", "nl">>
    /\ prov = NoProv
    /\ file0 = file
    /\ content = file
    /\ section_info = extract_unprocessed_section(file)
    /\ processed_content = <<>>
    /\ outcome = "none"
    /\ backend = "none"
    /\ driver = "none"
    /\ created = 0
    /\ quits = 0
    /\ caught = FALSE
    /\ iters = 0
    /\ calls = 0

NextClassify ==
    \/ ClassifyRaises
    \/ ProcessInstagram
    \/ SummarizeWebpage

SpecClassify == InitClassify /\ [][NextClassify]_vars

----------------------------------------------------------------------------
(* clean_response alone, on any answer of the endpoint; content holds the answer *)

InitClean ==
    /\ pc = "respond"
    /\ content \in RawTexts
    /\ file = <<>>
    /\ prov = NoProv
    /\ file0 = <<>>
    /\ section_info = NoSection
    /\ processed_content = <<>>
    /\ outcome = "none"
    /\ backend = "none"
    /\ driver = "none"
    /\ created = 0
    /\ quits = 0
    /\ caught = FALSE
    /\ iters = 0
    /\ calls = 0

\* summary = self.clean_response(response.json()['response'])
CleanResponse ==
    /\ pc = "respond"
    /\ processed_content' = clean_response(content)
    /\ outcome' = "ok"
    /\ pc' = "cleaned"
    /\ UNCHANGED <<file, prov, file0, content, section_info, backend, driver, created,
                   quits, caught, iters, calls>>

NextClean == CleanResponse

SpecClean == InitClean /\ [][NextClean]_vars

----------------------------------------------------------------------------
(* What the claims speak of *)

\* The entries of a text: the heading-to-next-heading spans the split finds
Entries(text) ==
    LET sec == Split(text)
    IN [k \in 1..((Len(sec) - 1) \div 2) |-> sec[2 * k]]

\* An entry's heading line, line feed included, and what follows it
HeadingLine(e) == SubSeq(e, 1, Min({i \in 1..Len(e) : e[i] = "nl"}))

BodyOf(e) == SubSeq(e, Len(HeadingLine(e)) + 1, Len(e))

\* The selected entry's raw span: the section without the text before its heading
RawSpan(info) == SubSeq(info.full_section, Len(info.header) + 1, Len(info.full_section))

\* Where the selected entry's raw span lies in the text it was selected from
RawSpanPositions(text, info) ==
    LET before == Len(Flatten(SubSeq(Split(text), 1, info.index))) + Len(info.header)
    IN (before + 1)..(before + Len(RawSpan(info)))

RECURSIVE ReplaceFirst(_, _, _)
ReplaceFirst(s, old, new) ==
    IF Len(s) < Len(old) THEN s
    ELSE IF SubSeq(s, 1, Len(old)) = old
         THEN new \o SubSeq(s, Len(old) + 1, Len(s))
         ELSE <<Head(s)>> \o ReplaceFirst(Tail(s), old, new)

Occurs(s, t) == \E i \in 1..(Len(s) - Len(t) + 1) : SubSeq(s, i, i + Len(t) - 1) = t

\* The entries extraction can select
UnprocessedCount(text) ==
    LET es == Entries(text)
    IN Cardinality({k \in 1..Len(es) :
                        LooksUnprocessed(es[k]) /\ LinkSearch(Strip(es[k])).found})

\* extract_unprocessed_section has just run on content
Extracted == pc = "process" \/ (pc = "finally" /\ ~caught)

----------------------------------------------------------------------------
(* Claims *)

\* C1: after a rewrite with summary S the note is the old note with the entry's
\* raw span replaced by its heading line, the link, a blank line, S, a blank
\* line and the rule: the heading line is still there.
C1_RewriteKeepsHeading ==
    pc = "sleep" =>
        file = ReplaceFirst(content, RawSpan(section_info),
                   HeadingLine(RawSpan(section_info))
                       \o <<"[">> \o section_info.title \o <<"]", "(">> \o section_info.url
                       \o <<")", "nl", "nl">> \o processed_content
                       \o <<"nl", "nl", "D", "nl">>)

\* C2: extraction returns the first entry whose body, the text after the heading
\* line, trimmed, has at most 2 line feeds and holds a URL scheme; no other
\* entry is returned and no such entry is passed over.  Stated for the notes
\* in which every such entry carries its URL as a markdown link.
C2_FirstEligibleEntryReturned ==
    Extracted =>
        LET es == Entries(content)
            eligible == {k \in 1..Len(es) :
                            /\ CountNl(Strip(BodyOf(es[k]))) <= 2
                            /\ Contains(BodyOf(es[k]), "U")}
        IN (\A k \in eligible : LinkSearch(Strip(BodyOf(es[k]))).found) =>
               IF eligible = {} THEN section_info = NoSection
               ELSE /\ section_info # NoSection
                    /\ section_info.index = 2 * (Min(eligible) - 1)
                    /\ RawSpan(section_info) = es[Min(eligible)]

\* C3: extraction on a rewritten note never selects an entry that holds text a
\* rewrite wrote, whatever the summary was.
C3_NeverReselectsWrittenText ==
    pc = "process" =>
        \A i \in RawSpanPositions(content, section_info) : i \notin prov.ok \cup prov.err

\* C4: a rewrite replaces the first occurrence of the selected section only and
\* leaves every other character of the note as it was.
C4_OnlyFirstOccurrenceChanges ==
    pc = "sleep" =>
        file = ReplaceFirst(content, section_info.full_section,
                            NewSection(section_info, processed_content))

\* C5: a failing backend makes process_section return an error string and not
\* raise; the string is written into the note as a summary is, after the link
\* and a blank line and before a blank line and the rule; and no later
\* iteration selects an entry holding text written for a failed entry.
C5_FailedEntryWrittenAndNeverRetried ==
    /\ (pc = "update" /\ outcome # "ok") =>
           /\ ~caught
           /\ Head(processed_content) \in {"EI", "EW"}
           /\ (outcome = "missing" => Contains(processed_content, "TNF"))
    /\ (pc = "sleep" /\ outcome # "ok") =>
           Occurs(file, <<")", "nl", "nl">> \o processed_content \o <<"nl", "nl", "D", "nl">>)
    /\ pc = "process" =>
           \A i \in RawSpanPositions(content, section_info) : i \notin prov.err

\* A later iteration has selected an entry while a failed entry's text is in the note.
C5_Witness ==
    /\ pc = "process"
    /\ iters >= 1
    /\ prov.err # {}

UrlHasDomain(url) == \E i \in 1..Len(url) : Lower(url[i]) \in {"IG", "YT"}

HostHasDomain(url) ==
    \E i \in 2..Len(url) :
        /\ Lower(url[i]) \in {"IG", "YT"}
        /\ \A k \in 2..(i - 1) : url[k] \notin {"/", "?", "H"}

Routed == pc \in {"update", "finally"}

\* C6 as stated: a URL holding instagram.com or youtube.com anywhere goes to the
\* transcript backend, every other URL to the web-text backend.  Stated for
\* the URLs urlparse accepts.
C6_RoutedBySubstringAnywhere ==
    (Routed /\ ~UrlparseRaises(section_info.url)) =>
        /\ UrlHasDomain(section_info.url) => backend \in {"process_instagram", "process_youtube"}
        /\ ~UrlHasDomain(section_info.url) => backend = "summarize_webpage"

\* C6 amended: a URL urlparse accepts goes to the transcript backend when its
\* host, the text between the scheme and the first "/", "?" or "#", holds
\* instagram.com or youtube.com in any letter case, and to the web-text backend
\* otherwise, one backend call each; a URL urlparse rejects reaches no backend.
C6_RoutedByHost ==
    Routed =>
        LET url == section_info.url
        IN IF UrlparseRaises(url)
           THEN backend = "raise" /\ calls = 0 /\ caught
           ELSE /\ calls = 1
                /\ HostHasDomain(url) => backend \in {"process_instagram", "process_youtube"}
                /\ ~HostHasDomain(url) => backend = "summarize_webpage"

\* A URL with the domain in its path only went to the web-text backend.
C6_Witness ==
    /\ Routed
    /\ backend = "summarize_webpage"
    /\ UrlHasDomain(section_info.url)
    /\ ~HostHasDomain(section_info.url)

\* C7: the cleaned text holds no <think>, </think>, [think] or [/think] and no
\* line beginning with thinking:
C7_NoMarkerSurvives ==
    pc = "cleaned" =>
        /\ \A i \in 1..Len(processed_content) :
               processed_content[i] \notin {"OT", "CT", "OB", "CB"}
        /\ \A i \in 1..Len(processed_content) :
               processed_content[i] = "TK" => (i > 1 /\ processed_content[i - 1] # "nl")

\* An entry in processed form: after the heading line, a link line, a blank
\* line, the summary, a blank line and the rule
ProcessedEntry(e) ==
    LET b == Strip(BodyOf(e))
        nls == {i \in 1..Len(b) : b[i] = "nl"}
    IN /\ Len(b) >= 4
       /\ SubSeq(b, Len(b) - 2, Len(b)) = <<"nl", "nl", "D">>
       /\ LinkSearch(SubSeq(b, 1, Min(nls) - 1)).found
       /\ b[Min(nls) + 1] = "nl"

NothingToDo(text) ==
    \/ ~Contains(text, "H")
    \/ LET es == Entries(text) IN \A k \in 1..Len(es) : ProcessedEntry(es[k])

C9_SessionReleasedOnEveryExit ==
    /\ created <= 1
    /\ quits <= created
    /\ pc = "done" => (driver = "none" /\ quits = created)
    /\ caught => pc \in {"finally", "done"}

\* A run that held a session ended through an exception after a rewrite.
C9_Witness ==
    /\ pc = "done"
    /\ caught
    /\ iters >= 1
    /\ created = 1
    /\ quits = 1

\* C10: every persisted rewrite leaves fewer unprocessed entries than there
\* were, and the run makes at most as many rewrites as the note had unprocessed
\* entries at its start.
C10_EveryRewriteReducesUnprocessed ==
    /\ pc = "sleep" => UnprocessedCount(file) < UnprocessedCount(content)
    /\ iters <= UnprocessedCount(file0)

====
